---- MODULE Spec2Model ----
(***************************************************************************)
(* Model of diffusion_models/gaussian_diffusion/ddimm_diffuser.py:         *)
(* the DdimDiffuser object (configuration, lazily built sub-sampled        *)
(* schedule, device) and its sampling loop denoise_batch.                  *)
(*                                                                         *)
(* Floating point values are modelled as fixed point numbers with Q units  *)
(* per 1.0, extended with NaN and the two infinities, with the IEEE rules  *)
(* for the special values.  A batch is a sequence of single-element        *)
(* samples: every operation of the reverse step is element-wise.           *)
(***************************************************************************)
EXTENDS Integers, Sequences, FiniteSets, TLC

\* ------------------------------------------------------------------ bounds
MaxT == 6
MaxImages == 1
Q == 4

Linear == "linear"
Quadratic == "quadratic"
DenoisingMode == {Linear, Quadratic}

TRange == 1..MaxT
SRange == (-1)..MaxT
Devices == {"cpu", "cuda"}

\* ------------------------------------------------- floating point values
Fin(n) == [k |-> "fin", v |-> n]
NaN == [k |-> "nan", v |-> 0]
Inf(s) == [k |-> "inf", v |-> s]

IsNaN(a) == a.k = "nan"
IsInf(a) == a.k = "inf"
IsFin(a) == a.k = "fin"

Sign(n) == IF n > 0 THEN 1 ELSE IF n < 0 THEN -1 ELSE 0
Abs(n) == IF n < 0 THEN -n ELSE n

\* round-to-nearest of the rational n / d (d > 0), in units of 1/Q
RoundDiv(n, d) == IF n >= 0 THEN (2 * n + d) \div (2 * d)
                  ELSE -((2 * (-n) + d) \div (2 * d))

ISqrt(n) == CHOOSE r \in 0..n : r * r <= n /\ (r + 1) * (r + 1) > n

FNeg(a) == IF IsNaN(a) THEN NaN
           ELSE IF IsInf(a) THEN Inf(-a.v)
           ELSE Fin(-a.v)

FAdd(a, b) ==
  IF IsNaN(a) \/ IsNaN(b) THEN NaN
  ELSE IF IsInf(a) /\ IsInf(b) THEN (IF a.v = b.v THEN a ELSE NaN)
  ELSE IF IsInf(a) THEN a
  ELSE IF IsInf(b) THEN b
  ELSE Fin(a.v + b.v)

FSub(a, b) == FAdd(a, FNeg(b))

FMul(a, b) ==
  IF IsNaN(a) \/ IsNaN(b) THEN NaN
  ELSE IF IsInf(a) \/ IsInf(b)
    THEN (IF Sign(a.v) * Sign(b.v) = 0 THEN NaN
          ELSE Inf(Sign(a.v) * Sign(b.v)))
  ELSE Fin(RoundDiv(a.v * b.v, Q))

FDiv(a, b) ==
  IF IsNaN(a) \/ IsNaN(b) THEN NaN
  ELSE IF IsInf(a) /\ IsInf(b) THEN NaN
  ELSE IF IsInf(a) THEN Inf(IF b.v < 0 THEN -a.v ELSE a.v)
  ELSE IF IsInf(b) THEN Fin(0)
  ELSE IF b.v = 0 THEN (IF a.v = 0 THEN NaN ELSE Inf(Sign(a.v)))
  ELSE Fin(Sign(b.v) * RoundDiv(a.v * Q, Abs(b.v)))

FSqrt(a) ==
  IF IsNaN(a) THEN NaN
  ELSE IF IsInf(a) THEN (IF a.v > 0 THEN a ELSE NaN)
  ELSE IF a.v < 0 THEN NaN
  ELSE Fin(ISqrt(a.v * Q))

One == Fin(Q)

\* ---------------------------------------------------------------- helpers
Min(a, b) == IF a < b THEN a ELSE b
Max(a, b) == IF a > b THEN a ELSE b

\* Python floor division a // b for b # 0
FloorDiv(a, b) ==
  IF b > 0 THEN a \div b
  ELSE -((a + (-b) - 1) \div (-b))

\* list(range(0, stop, step)) for step # 0
PyRange(stop, step) ==
  IF step > 0 /\ stop > 0
    THEN [i \in 1..((stop + step - 1) \div step) |-> (i - 1) * step]
    ELSE << >>

\* s[:-1]
DropLast(s) == IF Len(s) = 0 THEN << >> ELSE SubSeq(s, 1, Len(s) - 1)

\* list(range(n))[::-1]
Descending(n) == IF n <= 0 THEN << >> ELSE [i \in 1..n |-> n - i]

\* (np.linspace(0, np.sqrt(T * 0.8), S) ** 2).astype(int), S >= 0.
\* Element k is the truncation of (k * sqrt(0.8 T) / (S - 1))^2, that is of
\* 4 k^2 T / (5 (S - 1)^2); for S = 1 linspace returns the start point only.
\* For every T <= 9 the double precision result has the same integer part
\* as the exact quotient.
QuadraticRaw(T, S) ==
  IF S = 1 THEN <<0>>
  ELSE [i \in 1..S |-> (4 * (i - 1) * (i - 1) * T) \div (5 * (S - 1) * (S - 1))]


\* ------------------------------------------------------ step sub-sampling
\* a = self.beta_scheduler.steps // self.number_of_steps
Stride(T, S) == FloorDiv(T, S)

\* time_steps = np.asarray(list(range(0, T, a)))   (linear)
\* time_steps = (np.linspace(0, sqrt(0.8 T), S) ** 2).astype(int)  (quadratic)
RawSteps(T, S, m) ==
  IF m = Linear THEN PyRange(T, Stride(T, S)) ELSE QuadraticRaw(T, S)

\* self._time_steps = time_steps + 1
ShiftByZero(raw) == raw
ShiftByOne(raw) == [i \in DOMAIN raw |-> raw[i] + 1]

\* self._time_steps_prev = np.concatenate([[0], time_steps[:-1]])
PrevOf(raw) == <<0>> \o DropLast(raw)

\* The exception the property raises, or "ok":
\*   linear:    T // 0 raises ZeroDivisionError; range(0, T, 0) raises
\*              ValueError (S > T gives a = 0)
\*   quadratic: np.linspace raises ValueError for a negative sample count
StepsStatus(T, S, m) ==
  IF m = Linear
    THEN (IF S = 0 THEN "ZeroDivisionError"
          ELSE IF Stride(T, S) = 0 THEN "ValueError"
          ELSE "ok")
    ELSE (IF S < 0 THEN "ValueError" ELSE "ok")

\* The property DdimDiffuser.steps: what it stores and what it returns.
Steps(T, S, m) ==
  [status |-> StepsStatus(T, S, m),
   time_steps |-> IF StepsStatus(T, S, m) = "ok"
                    THEN ShiftByOne(RawSteps(T, S, m)) ELSE << >>,
   time_steps_prev |-> IF StepsStatus(T, S, m) = "ok"
                         THEN PrevOf(RawSteps(T, S, m)) ELSE << >>,
   value |-> IF StepsStatus(T, S, m) = "ok" THEN Descending(S) ELSE << >>]

\* torch.full((number_of_images,), value)
Full(n, value) == [j \in 1..n |-> value]

\* ------------------------------------------------------------ noise schedule
\* beta_scheduler.alpha_bars: T values in (0, 1), non-increasing, indexed
\* from 0 (element t of the tensor is AlphaBars(T)[t + 1]).
AlphaBars(T) == [t \in 1..T |-> Fin(Max(1, ((T - t + 1) * Q) \div (T + 1)))]

\* alpha_bars.gather(dim=0, index=...) fails for an index outside 0..T-1
InRange(T, index) == \A j \in DOMAIN index : index[j] >= 0 /\ index[j] <= T - 1

\* -------------------------------------------------------------- reverse step
\* eta: float = 0.0, the default denoise_batch relies on
EtaOne == One
Eta == Fin(0)

\* sigma = eta * sqrt((1 - ab_prev) / (1 - ab_t) * (1 - ab_t / ab_prev))
Sigma(ab_t, ab_prev, eta) ==
  FMul(eta,
       FSqrt(FMul(FDiv(FSub(One, ab_prev), FSub(One, ab_t)),
                  FSub(One, FDiv(ab_t, ab_prev)))))

\* mu = sqrt(ab_prev / ab_t) * images
\*      + (sqrt(1 - ab_prev - sigma**2) - sqrt(ab_prev * (1 - ab_t) / ab_t))
\*        * epsilon_theta
Mu(x, epsilon_theta, ab_t, ab_prev, sigma) ==
  FAdd(FMul(FSqrt(FDiv(ab_prev, ab_t)), x),
       FMul(FSub(FSqrt(FSub(FSub(One, ab_prev), FMul(sigma, sigma))),
                 FSqrt(FDiv(FMul(ab_prev, FSub(One, ab_t)), ab_t))),
            epsilon_theta))

\* return mu + sigma * epsilon_t      (one element of the batch)
DenoiseElement(x, epsilon_theta, ab_t, ab_prev, eta, epsilon_t) ==
  FAdd(Mu(x, epsilon_theta, ab_t, ab_prev, Sigma(ab_t, ab_prev, eta)),
       FMul(Sigma(ab_t, ab_prev, eta), epsilon_t))

\* torch.clamp(x, -1.0, 1.0): NaN stays NaN, infinities go to the bounds
ClampIdentity(x) == x
Clamp(x) ==
  IF IsNaN(x) THEN NaN
  ELSE IF IsInf(x) THEN Fin(x.v * Q)
  ELSE Fin(Max(-Q, Min(Q, x.v)))

\* ------------------------------------------------------------ noise predictor
\* The external noise predictor: a deterministic function of the sample and
\* of the current time step, given here by a few representatives.
Models == {"sum", "nan", "inf"}
Predict(model, x, t) ==
  CASE model = "sum" -> FAdd(x, Fin(t))
    [] model = "nan" -> NaN
    [] model = "inf" -> Inf(1)

InitialValues == {Fin(-2 * Q), Fin(1)}
NoiseValues == {Fin(-Q), Fin(Q)}

\* --------------------------------------------------------------------- state
VARIABLES
  scheduler_steps,    \* self.beta_scheduler.steps (T)
  number_of_steps,    \* self.number_of_steps (S)
  mode,               \* self.mode
  device,             \* self.device
  built,              \* whether self._time_steps / _time_steps_prev exist
  time_steps,         \* self._time_steps
  time_steps_prev,    \* self._time_steps_prev
  pc,                 \* position of denoise_batch: idle, loop, done, error
  todo,               \* the step indices the for loop has still to visit
  images,             \* the local variable images of denoise_batch
  images2,            \* the same, in a second run on the same inputs
  denoised_images,    \* the list denoise_batch builds
  denoised_images2,   \* the same, in the second run
  noise_differs,      \* whether the last reverse step drew different epsilon_t
                      \* in the two runs
  calls,              \* the calls of the noise predictor made so far
  model,              \* the noise predictor passed to denoise_batch
  ret                 \* outcome of the last completed operation

vars == <<scheduler_steps, number_of_steps, mode, device, built, time_steps,
          time_steps_prev, pc, todo, images, images2, denoised_images,
          denoised_images2, noise_differs, calls, model, ret>>

config == <<scheduler_steps, number_of_steps, mode>>
schedule == <<built, time_steps, time_steps_prev>>
locals == <<todo, images, images2, denoised_images, denoised_images2,
            noise_differs, calls, model>>

Result(op, status, n, idx, value) ==
  [op |-> op, status |-> status, n |-> n, idx |-> idx, value |-> value]

\* DdimDiffuser.__init__: the schedule attributes are not created
Init ==
  /\ scheduler_steps \in TRange
  /\ number_of_steps \in SRange
  /\ mode \in DenoisingMode
  /\ device = "cpu"
  /\ built = FALSE
  /\ time_steps = << >>
  /\ time_steps_prev = << >>
  /\ pc = "idle"
  /\ todo = << >>
  /\ images = << >>
  /\ images2 = << >>
  /\ denoised_images = << >>
  /\ denoised_images2 = << >>
  /\ noise_differs = FALSE
  /\ calls = << >>
  /\ model = "none"
  /\ ret = Result("init", "ok", 0, 0, << >>)

\* diffuser.mode = m
SetMode(m) ==
  /\ pc = "idle"
  /\ mode' = m
  /\ ret' = Result("set_mode", "ok", 0, 0, << >>)
  /\ UNCHANGED <<scheduler_steps, number_of_steps, device, schedule, pc, locals>>

\* diffuser.number_of_steps = s
SetNumberOfSteps(s) ==
  /\ pc = "idle"
  /\ number_of_steps' = s
  /\ ret' = Result("set_number_of_steps", "ok", 0, 0, << >>)
  /\ UNCHANGED <<scheduler_steps, mode, device, schedule, pc, locals>>

\* diffuser.to(device)
To(d) ==
  /\ pc = "idle"
  /\ device' = d
  /\ ret' = Result("to", "ok", 0, 0, << >>)
  /\ UNCHANGED <<config, schedule, pc, locals>>

\* The effect of evaluating self.steps on the schedule attributes: both are
\* assigned only when no exception is raised before lines 58-59.
StoreSchedule(r) ==
  IF r.status = "ok"
    THEN /\ built' = TRUE
         /\ time_steps' = r.time_steps
         /\ time_steps_prev' = r.time_steps_prev
    ELSE UNCHANGED schedule

\* diffuser.steps
ReadSteps ==
  /\ pc = "idle"
  /\ LET r == Steps(scheduler_steps, number_of_steps, mode) IN
       /\ StoreSchedule(r)
       /\ ret' = Result("steps", r.status, 0, 0, r.value)
  /\ UNCHANGED <<config, device, pc, locals>>

\* The Timestep get_timestep builds from the stored schedule, or the
\* exception it raises.
TimestepOf(n, idx) ==
  IF ~built THEN Result("get_timestep", "AttributeError", n, idx, << >>)
  ELSE IF idx + 1 > Len(time_steps) \/ idx + 1 > Len(time_steps_prev)
    THEN Result("get_timestep", "IndexError", n, idx, << >>)
  ELSE Result("get_timestep", "ok", n, idx,
              [current |-> Full(n, time_steps[idx + 1]),
               previous |-> Full(n, time_steps_prev[idx + 1])])

\* diffuser.get_timestep(n, idx)
GetTimestep(n, idx) ==
  /\ pc = "idle"
  /\ ret' = TimestepOf(n, idx)
  /\ UNCHANGED <<config, device, schedule, pc, locals>>

\* ------------------------------------------------------------ denoise_batch
Batches == UNION {[1..n -> InitialValues] : n \in 1..MaxImages}

\* denoise_batch(images, model) up to the evaluation of self.steps in the
\* for statement: the schedule is rebuilt, or the exception of the property
\* leaves denoise_batch before the loop is entered.
DenoiseStart(imgs, m) ==
  /\ pc = "idle"
  /\ LET r == Steps(scheduler_steps, number_of_steps, mode) IN
       /\ StoreSchedule(r)
       /\ ret' = Result("steps", r.status, 0, 0, r.value)
       /\ pc' = IF r.status = "ok" THEN "loop" ELSE "error"
       /\ todo' = r.value
  /\ images' = imgs
  /\ images2' = imgs
  /\ denoised_images' = << >>
  /\ denoised_images2' = << >>
  /\ noise_differs' = FALSE
  /\ calls' = << >>
  /\ model' = m
  /\ UNCHANGED <<config, device>>

\* _denoise_step on a whole batch, for one run
DenoiseBatchStep(imgs, m, timestep, eta, epsilon_t) ==
  [j \in DOMAIN imgs |->
     DenoiseElement(imgs[j],
                    Predict(m, imgs[j], timestep.current[j]),
                    AlphaBars(scheduler_steps)[timestep.current[j] + 1],
                    AlphaBars(scheduler_steps)[timestep.previous[j] + 1],
                    eta, epsilon_t[j])]

\* images = torch.clamp(images, -1.0, 1.0)
ClampBatch(imgs) == [j \in DOMAIN imgs |-> Clamp(imgs[j])]

\* One iteration of the for loop: get_timestep, _denoise_step (the noise
\* predictor is called first, then the two gathers, which fail on an index
\* outside the schedule), clamp, append.  Both runs draw their own noise.
DenoiseStep(e1, e2) ==
  /\ pc = "loop"
  /\ todo # << >>
  /\ LET i == Head(todo)
         t == TimestepOf(Len(images), i)
     IN IF t.status # "ok"
          THEN /\ pc' = "error"
               /\ UNCHANGED <<locals>>
          ELSE /\ calls' = Append(calls, [idx |-> i,
                                          images |-> images,
                                          images2 |-> images2,
                                          current |-> t.value.current,
                                          previous |-> t.value.previous])
               /\ IF InRange(scheduler_steps, t.value.current)
                     /\ InRange(scheduler_steps, t.value.previous)
                    THEN /\ images' = ClampBatch(
                              DenoiseBatchStep(images, model, t.value, Eta, e1))
                         /\ images2' = ClampBatch(
                              DenoiseBatchStep(images2, model, t.value, Eta, e2))
                         /\ denoised_images' = Append(denoised_images, images')
                         /\ denoised_images2' = Append(denoised_images2, images2')
                         /\ noise_differs' = (e1 # e2)
                         /\ todo' = Tail(todo)
                         /\ pc' = "loop"
                         /\ UNCHANGED model
                    ELSE /\ pc' = "error"
                         /\ UNCHANGED <<todo, images, images2, denoised_images,
                                        denoised_images2, noise_differs, model>>
  /\ UNCHANGED <<config, device, schedule, ret>>

\* return denoised_images
DenoiseReturn ==
  /\ pc = "loop"
  /\ todo = << >>
  /\ pc' = "done"
  /\ UNCHANGED <<config, device, schedule, locals, ret>>

\* The caller receives the trajectory or the exception; the locals of the
\* call are gone.  ret keeps whether a trajectory was returned, not its value.
Release ==
  /\ pc \in {"done", "error"}
  /\ pc' = "idle"
  /\ ret' = Result("denoise_batch", IF pc = "done" THEN "ok" ELSE "error",
                   0, 0, << >>)
  /\ todo' = << >>
  /\ images' = << >>
  /\ images2' = << >>
  /\ denoised_images' = << >>
  /\ denoised_images2' = << >>
  /\ noise_differs' = FALSE
  /\ calls' = << >>
  /\ model' = "none"
  /\ UNCHANGED <<config, device, schedule>>

Next ==
  \/ \E m \in DenoisingMode : SetMode(m)
  \/ \E s \in SRange : SetNumberOfSteps(s)
  \/ \E d \in Devices : To(d)
  \/ ReadSteps
  \/ \E n \in 1..MaxImages, idx \in 0..(MaxT - 1) : GetTimestep(n, idx)
  \/ \E imgs \in Batches, m \in Models : DenoiseStart(imgs, m)
  \/ \E e1, e2 \in [1..Len(images) -> NoiseValues] : DenoiseStep(e1, e2)
  \/ DenoiseReturn
  \/ Release

Spec == Init /\ [][Next]_vars

\* ------------------------------------------------------------------- claims
T == scheduler_steps
S == number_of_steps

\* a configuration the schedule is meant for
Valid == 0 < S /\ S < T

\* The stored schedule is the one the last read of self.steps built for the
\* present configuration: every assignment to the configuration replaces ret.
Fresh == ret.op = "steps" /\ ret.status = "ok"

WithinUnit(x) == IsFin(x) /\ -Q <= x.v /\ x.v <= Q

\* C1: for 0 < S < T and both modes, the schedule built by reading steps has
\* time_steps and time_steps_prev of length exactly S.
C1_LengthExactlyS ==
  (Fresh /\ Valid) => (Len(time_steps) = S /\ Len(time_steps_prev) = S)

\* C2: for 0 < S < T and both modes, time_steps is strictly increasing and
\* every element lies in [1, T].
C2_StrictlyIncreasing ==
  (Fresh /\ Valid) =>
    /\ \A i \in 1..(Len(time_steps) - 1) : time_steps[i] < time_steps[i + 1]
    /\ \A i \in DOMAIN time_steps : 1 <= time_steps[i] /\ time_steps[i] <= T

\* C3: time_steps_prev[0] is 0 and time_steps_prev[k] equals time_steps[k-1]
\* for every k >= 1: a reverse step lands on the index the next one starts from.
C3_PrevIsPreviousCurrent ==
  (Fresh /\ Valid) =>
    /\ time_steps_prev[1] = 0
    /\ \A i \in 2..Len(time_steps_prev) : time_steps_prev[i] = time_steps[i - 1]

\* C4: a configuration with S >= T or S <= 0 is rejected with an error when
\* denoise_batch builds the schedule, before any reverse step runs and before
\* the noise predictor is called, and no trajectory is returned for it.
C4_InvalidConfigurationRejected ==
  (S >= T \/ S <= 0) =>
    /\ pc # "idle" => (pc = "error" /\ calls = << >> /\ denoised_images = << >>)
    /\ ret.op = "denoise_batch" => ret.status = "error"

\* The visits made so far are S-1, S-2, ... in that order, each with one call
\* of the noise predictor on time_steps[idx] and on the clamped output of the
\* visit before, and each successful visit appended one entry.
VisitsInOrder ==
  /\ \A j \in 1..Len(calls) :
       /\ calls[j].idx = S - j
       /\ calls[j].current = Full(Len(images), time_steps[S - j + 1])
       /\ j > 1 => calls[j].images = denoised_images[j - 1]
  /\ pc = "loop" => (Len(calls) = Len(denoised_images)
                     /\ Len(calls) + Len(todo) = S)
  /\ pc = "done" => (Len(calls) = S /\ Len(denoised_images) = S)
\* C5: denoise_batch visits the indices S-1, ..., 0 in that order, once each,
\* calls the noise predictor once per visit with time_steps[idx], feeds the
\* clamped output of a step to the next one, appends one entry per visit and
\* ends with a trajectory of exactly S entries.
C5_VisitsEveryStepOnce ==
  (Valid /\ pc # "idle") => (pc # "error" /\ VisitsInOrder)

\* C6 (as claimed): every element of every trajectory entry lies within
\* [-1, 1], and so does the input of every reverse step after the first.
C6_AllWithinUnit ==
  /\ \A i \in DOMAIN denoised_images :
       \A j \in DOMAIN denoised_images[i] : WithinUnit(denoised_images[i][j])
  /\ \A i \in DOMAIN calls :
       i > 1 => \A j \in DOMAIN calls[i].images : WithinUnit(calls[i].images[j])

\* C6 (amended): every element of every trajectory entry, and of the input
\* of every reverse step after the first, is NaN or lies within [-1, 1].
C6_WithinUnitOrNaN ==
  /\ \A i \in DOMAIN denoised_images :
       \A j \in DOMAIN denoised_images[i] :
         IsNaN(denoised_images[i][j]) \/ WithinUnit(denoised_images[i][j])
  /\ \A i \in DOMAIN calls :
       i > 1 => \A j \in DOMAIN calls[i].images :
                  IsNaN(calls[i].images[j]) \/ WithinUnit(calls[i].images[j])

\* a finished run in which an infinite prediction was clamped to a bound
C6_Witness ==
  /\ pc = "done"
  /\ model = "inf"
  /\ Len(denoised_images) >= 2
  /\ \E i \in DOMAIN denoised_images :
       denoised_images[i][1] \in {Fin(Q), Fin(-Q)}

\* C7: with eta = 0, two runs with the same initial noise and the same
\* deterministic predictor build identical trajectories, whatever fresh noise
\* each reverse step draws.
C7_SameTrajectory ==
  /\ images = images2
  /\ denoised_images = denoised_images2

\* two finished runs of several steps whose last steps drew different noise
C7_Witness ==
  /\ pc = "done"
  /\ Len(denoised_images) >= 2
  /\ noise_differs

\* C8: in linear mode with 0 < S < T, time_steps[k] = k * (T // S) + 1 for
\* every k in 0..S-1; for T = 1000, S = 20 it is [1, 51, 101, ..., 951].
C8_LinearStride ==
  /\ (Fresh /\ Valid /\ mode = Linear) =>
       \A k \in 0..(S - 1) : time_steps[k + 1] = k * (T \div S) + 1
  /\ Steps(1000, 20, Linear).time_steps = [i \in 1..20 |-> 50 * (i - 1) + 1]

\* a linear schedule of several steps with a stride above one
C8_Witness ==
  /\ Fresh /\ Valid /\ mode = Linear
  /\ S >= 2
  /\ T \div S >= 2

\* C9: for 0 < S < T and both modes, every (current, previous) pair passed to
\* _denoise_step satisfies 0 <= previous < current <= T - 1.
C9_IndicesInRange ==
  Valid =>
    \A i \in DOMAIN calls : \A j \in DOMAIN calls[i].current :
      /\ 0 <= calls[i].previous[j]
      /\ calls[i].previous[j] < calls[i].current[j]
      /\ calls[i].current[j] <= T - 1

\* C10: after any sequence of operations, get_timestep(n, idx) with
\* 0 <= idx < number_of_steps succeeds and returns the pair of the schedule
\* for the present (T, number_of_steps, mode).
C10_GetTimestepPresentSchedule ==
  (ret.op = "get_timestep" /\ 0 <= ret.idx /\ ret.idx < S) =>
    /\ ret.status = "ok"
    /\ Steps(T, S, mode).status = "ok"
    /\ ret.value =
         [current |-> Full(ret.n, Steps(T, S, mode).time_steps[ret.idx + 1]),
          previous |-> Full(ret.n, Steps(T, S, mode).time_steps_prev[ret.idx + 1])]

====
